---- MODULE Spec2Model ----
(***************************************************************************)
(* State-machine model of the chat-completions gateway: the handler of     *)
(* POST /v1/chat/completions (and POST /gemini/chat/completions) in each   *)
(* of the nine programs found in src/, the upstream calls it issues and    *)
(* the relay of the upstream answer to the client.                         *)
(*                                                                         *)
(* JavaScript values are represented as follows.                           *)
(*  - a string that the code inspects (the model id, the bytes of a        *)
(*    stream) is a sequence of one-character strings;                      *)
(*  - an object is a record holding exactly the properties that are        *)
(*    present; a missing property is a missing field;                      *)
(*  - a JS string standing where an object is expected (error: "...") is   *)
(*    the one-field record [str |-> "..."];                                *)
(*  - temperature is counted in tenths (6 is 0.6).                         *)
(***************************************************************************)
EXTENDS Integers, Sequences, FiniteSets, TLC

VARIABLES
    variant,                \* which of the nine programs is deployed
    GEMINI_API_KEY,         \* process.env.GEMINI_API_KEY is set
    NIM_API_KEY,            \* process.env.NIM_API_KEY is set
    ENABLE_THINKING_MODE,   \* "false", or "undeclared" in a program that never declares it
    req,                    \* the inbound request: [route, body]
    pc,                     \* where the handler of the request stands
    res,                    \* the client response object
    calls,                  \* the upstream HTTP calls issued for the request, in order
    branches,               \* the provider branches the handler entered, in order
    upstream,               \* the upstream response stream being relayed
    thrown,                 \* the errors thrown inside the handler, in order
    answers,                \* how each upstream call was answered, in order
    inflight,               \* the requests being relayed at the same time, by request number
    pure                    \* a translator applied on its own: [fn, input, output]

vars == <<variant, GEMINI_API_KEY, NIM_API_KEY, ENABLE_THINKING_MODE, req, pc, res,
          calls, branches, upstream, thrown, answers, inflight, pure>>

-----------------------------------------------------------------------------
(* Strings *)

UpperToLower ==
    [A |-> "a", B |-> "b", C |-> "c", D |-> "d", E |-> "e", F |-> "f", G |-> "g",
     H |-> "h", I |-> "i", J |-> "j", K |-> "k", L |-> "l", M |-> "m", N |-> "n",
     O |-> "o", P |-> "p", Q |-> "q", R |-> "r", S |-> "s", T |-> "t", U |-> "u",
     V |-> "v", W |-> "w", X |-> "x", Y |-> "y", Z |-> "z"]

\* String.prototype.toLowerCase
toLowerCase(s) ==
    [i \in 1..Len(s) |-> IF s[i] \in DOMAIN UpperToLower THEN UpperToLower[s[i]] ELSE s[i]]

\* String.prototype.startsWith
startsWith(s, p) ==
    /\ Len(p) <= Len(s)
    /\ SubSeq(s, 1, Len(p)) = p

\* String.prototype.includes
includes(s, p) ==
    \E i \in 1..(Len(s) - Len(p) + 1) : SubSeq(s, i, i + Len(p) - 1) = p

gemini == <<"g", "e", "m", "i", "n", "i">>

\* The model ids that requests carry.
gpt_4o == <<"g", "p", "t", "-", "4", "o">>
gpt_4 == <<"g", "p", "t", "-", "4">>
gpt_4_turbo == <<"g", "p", "t", "-", "4", "-", "t", "u", "r", "b", "o">>
gpt_35_turbo == <<"g", "p", "t", "-", "3", ".", "5", "-", "t", "u", "r", "b", "o">>
claude_3_opus == <<"c", "l", "a", "u", "d", "e", "-", "3", "-", "o", "p", "u", "s">>
claude_3_sonnet == <<"c", "l", "a", "u", "d", "e", "-", "3", "-", "s", "o", "n", "n", "e", "t">>
gemini_pro == <<"g", "e", "m", "i", "n", "i", "-", "p", "r", "o">>
gemini_25_flash ==
    <<"g", "e", "m", "i", "n", "i", "-", "2", ".", "5", "-", "f", "l", "a", "s", "h">>
gemini_15_flash ==
    <<"g", "e", "m", "i", "n", "i", "-", "1", ".", "5", "-", "f", "l", "a", "s", "h">>
Gemini_Pro == <<"G", "e", "m", "i", "n", "i", "-", "P", "r", "o">>
my_gemini == <<"m", "y", "-", "g", "e", "m", "i", "n", "i">>
mistral == <<"m", "i", "s", "t", "r", "a", "l">>
constructor == <<"c", "o", "n", "s", "t", "r", "u", "c", "t", "o", "r">>

-----------------------------------------------------------------------------
(* The nine programs *)

NativeStream == "server.js:1-228"          \* Gemini: native streamGenerateContent relay
TwoDoors == "server.js:230-382"            \* NVIDIA on /v1, Gemini on /gemini
PassThroughA == "part_000"                 \* Gemini: OpenAI-compatible pipe
PassThroughB == "part_001"                 \* Gemini: OpenAI-compatible pipe
Buffered == "part_002:1-229"               \* Gemini: native generateContent, buffered
NimOnlyA == "part_002:231-337"             \* NVIDIA only
PassThroughC == "part_002:339-515"         \* Gemini: OpenAI-compatible pipe
NimOnlyB == "part_002:517-649"             \* NVIDIA only
Unified == "part_002:651-776"              \* one try around both branches

Variants ==
    {NativeStream, TwoDoors, PassThroughA, PassThroughB, Buffered, NimOnlyA,
     PassThroughC, NimOnlyB, Unified}

\* The programs whose /v1/chat/completions handler tests the model id for 'gemini'.
DispatchingVariants ==
    {NativeStream, PassThroughA, PassThroughB, Buffered, PassThroughC, Unified}

\* The programs that translate to the native Gemini schema.
NativeVariants == {NativeStream, Buffered}

\* The programs that never declare ENABLE_THINKING_MODE although they read it.
ThinkingUndeclaredVariants == {NativeStream, Buffered}

Llama405 == "meta/llama-3.1-405b-instruct"
Llama70 == "meta/llama-3.1-70b-instruct"

MappingBase ==
    {<<gpt_4o, Llama405>>,
     <<gpt_4, "deepseek-ai/deepseek-v3.1-terminus">>,
     <<gpt_4_turbo, "deepseek-ai/deepseek-r1-0528">>,
     <<gpt_35_turbo, Llama70>>}

\* const MODEL_MAPPING of each program, as its set of <<key, value>> entries.
MODEL_MAPPING(v) ==
    CASE v \in {NativeStream, Buffered} ->
            MappingBase \cup {<<gemini_pro, "deepseek-ai/deepseek-r1">>}
      [] v \in {TwoDoors, PassThroughA, PassThroughB, PassThroughC} ->
            MappingBase \cup {<<claude_3_opus, Llama405>>,
                              <<gemini_pro, "deepseek-ai/deepseek-r1">>}
      [] v = NimOnlyA ->
            {<<gpt_4o, Llama405>>, <<gpt_4, Llama405>>,
             <<gpt_4_turbo, "deepseek-ai/deepseek-r1">>,
             <<gpt_35_turbo, Llama70>>, <<claude_3_opus, Llama405>>,
             <<gemini_pro, "deepseek-ai/deepseek-r1">>}
      [] v = NimOnlyB ->
            {<<gpt_4o, Llama405>>, <<gpt_4, Llama405>>,
             <<gpt_4_turbo, "deepseek-ai/deepseek-v3">>,
             <<gpt_35_turbo, Llama70>>, <<claude_3_opus, Llama405>>,
             <<claude_3_sonnet, Llama70>>,
             <<gemini_pro, "deepseek-ai/deepseek-v3">>}
      [] v = Unified ->
            MappingBase \cup {<<claude_3_opus, Llama405>>}

\* Object.keys(MODEL_MAPPING)
MappingKeys(v) == {e[1] : e \in MODEL_MAPPING(v)}

\* The property names every object literal inherits from Object.prototype
\* (those among the model ids of the model).
ObjectPrototypeKeys == {constructor}

\* What a property read that lands on Object.prototype yields: a function, not a string.
InheritedFunction == "[Function]"

-----------------------------------------------------------------------------
(* Requests *)

V1 == "/v1/chat/completions"
GeminiDoor == "/gemini/chat/completions"

\* The routes a program registers a chat handler for.
Routes(v) == IF v = TwoDoors THEN {V1, GeminiDoor} ELSE {V1}

\* A property that may be missing: the empty record, or the record of one field.
Opt(f, vals) == {<<>>} \cup {f :> x : x \in vals}

\* Object spread of two records with disjoint fields.
Merge(a, b) == IF a = <<>> THEN b ELSE IF b = <<>> THEN a ELSE a @@ b

ModelIds ==
    {<<>>, gpt_4o, gpt_4, mistral, constructor, gemini_pro, gemini_25_flash,
     Gemini_Pro, my_gemini}

\* temperature in tenths: 0, 1.0.  max_tokens: 0, 256.
Temperatures == {0, 10}
MaxTokens == {0, 256}

Conversation ==
    <<[role |-> "system", content |-> "be brief"],
      [role |-> "user", content |-> "hi"],
      [role |-> "assistant", content |-> "hello"],
      [role |-> "user", content |-> "bye"]>>

MessageLists == {<<[role |-> "user", content |-> "hi"]>>, Conversation}

\* The bodies of the requests: every property but messages may be missing.
Bodies ==
    {Merge("messages" :> ms, Merge(m, Merge(s, Merge(t, k)))) :
        ms \in MessageLists,
        m \in Opt("model", ModelIds),
        s \in Opt("stream", BOOLEAN),
        t \in Opt("temperature", Temperatures),
        k \in Opt("max_tokens", MaxTokens)}

Has(o, f) == f \in DOMAIN o

\* `x || d` on a number property: undefined and 0 are falsy.
OrNumber(o, f, d) == IF Has(o, f) /\ o[f] # 0 THEN o[f] ELSE d

\* Truthiness of the stream property: undefined and false are falsy.
Truthy(o, f) == Has(o, f) /\ o[f] = TRUE

\* Truthiness of a string property: undefined and "" are falsy.
TruthyString(o, f) == Has(o, f) /\ o[f] # <<>>

-----------------------------------------------------------------------------
(* Provider registry and dispatch *)

\* A faulty test that looks for 'gemini' without lower-casing the model id: C17
\* must tell it from IsGeminiModel.
IsGeminiModel_CaseSensitive(body) ==
    /\ TruthyString(body, "model")
    /\ includes(body.model, gemini)

\* model && model.toLowerCase().includes('gemini')
IsGeminiModel(body) ==
    /\ TruthyString(body, "model")
    /\ includes(toLowerCase(body.model), gemini)

\* MODEL_MAPPING[model]: an own property, else one inherited from
\* Object.prototype, else undefined (the empty record).
MappingGet(v, body) ==
    IF ~Has(body, "model") THEN <<>>
    ELSE IF body.model \in MappingKeys(v)
         THEN [value |-> (CHOOSE e \in MODEL_MAPPING(v) : e[1] = body.model)[2]]
    ELSE IF body.model \in ObjectPrototypeKeys THEN [value |-> InheritedFunction]
    ELSE <<>>

\* let nimModel = MODEL_MAPPING[model] || 'meta/llama-3.1-405b-instruct'
nimModel(v, body) ==
    LET got == MappingGet(v, body)
    IN  IF Has(got, "value") THEN got.value ELSE Llama405

\* model.startsWith('gemini') ? model : 'gemini-1.5-flash'
targetModel(body) ==
    IF startsWith(body.model, gemini) THEN body.model ELSE gemini_15_flash

-----------------------------------------------------------------------------
(* Request translators *)

NimTemperatureDefault == 6
NimMaxTokensDefault == 1024
NativeTemperatureDefault == 7
NativeMaxTokensDefault == 8192

\* A faulty nimRequest that takes the defaults of the native branch: C9 must
\* tell it from nimRequest.
nimRequest_NativeDefaults(v, body) ==
    [model |-> nimModel(v, body),
     messages |-> body.messages,
     temperature |-> OrNumber(body, "temperature", NativeTemperatureDefault),
     max_tokens |-> OrNumber(body, "max_tokens", NativeMaxTokensDefault),
     stream |-> Truthy(body, "stream")]

\* const nimRequest = {...}; extra_body is undefined (ENABLE_THINKING_MODE is false)
\* and so is not a property of the serialised body.
nimRequest(v, body) ==
    [model |-> nimModel(v, body),
     messages |-> body.messages,
     temperature |-> OrNumber(body, "temperature", NimTemperatureDefault),
     max_tokens |-> OrNumber(body, "max_tokens", NimMaxTokensDefault),
     stream |-> Truthy(body, "stream")]

\* The loop over messages: system messages set systemInstruction, the others
\* are pushed to contents with role 'model' or 'user'.
RECURSIVE TranslateFrom(_, _, _)
TranslateFrom(messages, i, acc) ==
    IF i > Len(messages) THEN acc
    ELSE LET msg == messages[i]
         IN  IF msg.role = "system"
             THEN TranslateFrom(messages, i + 1,
                    [acc EXCEPT !.systemInstruction =
                        [value |-> [parts |-> <<[text |-> msg.content]>>]]])
             ELSE TranslateFrom(messages, i + 1,
                    [acc EXCEPT !.contents = Append(@,
                        [role |-> IF msg.role = "assistant" THEN "model" ELSE "user",
                         parts |-> <<[text |-> msg.content]>>])])

\* A faulty loop that gives every turn the role 'user': C16 must tell it from
\* Translate.
Translate_AllUser(messages) ==
    LET t == TranslateFrom(messages, 1, [systemInstruction |-> <<>>, contents |-> <<>>])
    IN  [t EXCEPT !.contents = [k \in 1..Len(@) |-> [@[k] EXCEPT !.role = "user"]]]

\* A faulty loop that pushes system messages to contents as well: C18 must tell
\* it from Translate.
Translate_SystemAsTurn(messages) ==
    LET t == TranslateFrom(messages, 1, [systemInstruction |-> <<>>, contents |-> <<>>])
    IN  [t EXCEPT !.contents =
            [k \in 1..Len(messages) |->
                [role |-> IF messages[k].role = "assistant" THEN "model" ELSE "user",
                 parts |-> <<[text |-> messages[k].content]>>]]]

\* A faulty loop that keeps the first system message: C19 must tell it from
\* Translate.
Translate_FirstSystemWins(messages) ==
    LET t == TranslateFrom(messages, 1, [systemInstruction |-> <<>>, contents |-> <<>>])
        sys == SelectSeq(messages, LAMBDA m : m.role = "system")
    IN  [t EXCEPT !.systemInstruction =
            IF sys = <<>> THEN <<>>
            ELSE [value |-> [parts |-> <<[text |-> sys[1].content]>>]]]

Translate(messages) ==
    TranslateFrom(messages, 1, [systemInstruction |-> <<>>, contents |-> <<>>])

safetySettings ==
    <<[category |-> "HARM_CATEGORY_HARASSMENT", threshold |-> "BLOCK_NONE"],
      [category |-> "HARM_CATEGORY_HATE_SPEECH", threshold |-> "BLOCK_NONE"],
      [category |-> "HARM_CATEGORY_SEXUALLY_EXPLICIT", threshold |-> "BLOCK_NONE"],
      [category |-> "HARM_CATEGORY_DANGEROUS_CONTENT", threshold |-> "BLOCK_NONE"]>>

\* const nativeBody = {...}; systemInstruction is <<>> when undefined,
\* else [value |-> the instruction].
nativeBody(body) ==
    LET t == Translate(body.messages)
    IN  [contents |-> t.contents,
         systemInstruction |-> t.systemInstruction,
         generationConfig |->
            [temperature |-> OrNumber(body, "temperature", NativeTemperatureDefault),
             maxOutputTokens |-> OrNumber(body, "max_tokens", NativeMaxTokensDefault),
             candidateCount |-> 1],
         safetySettings |-> safetySettings]

\* const newBody = { ...req.body }; if (newBody.repetition_penalty) delete ...
newBody(body) ==
    IF Has(body, "repetition_penalty") /\ body.repetition_penalty # 0
    THEN [f \in DOMAIN body \ {"repetition_penalty"} |-> body[f]]
    ELSE body

-----------------------------------------------------------------------------
(* The client response (express res over http.ServerResponse) *)

ResInit ==
    [statusCode |-> 200,        \* res.statusCode
     headers |-> {},            \* the headers set so far, <<name, value>>
     headersSent |-> FALSE,     \* res.headersSent
     wire |-> <<>>,             \* the status line and headers the client received
     finished |-> FALSE,        \* res.end() was called
     out |-> <<>>]              \* the body written so far, in order

EventStreamHeaders ==
    {<<"Content-Type", "text/event-stream">>,
     <<"Cache-Control", "no-cache">>,
     <<"Connection", "keep-alive">>}

\* res.setHeader(name, value) for each header of hs; the caller checks headersSent.
setHeaders(r, hs) ==
    [r EXCEPT !.headers = {h \in @ : \A n \in hs : n[1] # h[1]} \cup hs]

\* The implicit writeHead of the first write.
flush(r) ==
    IF r.headersSent THEN r
    ELSE [r EXCEPT !.headersSent = TRUE,
                   !.wire = [status |-> r.statusCode, headers |-> r.headers]]

\* res.write(item) for each item of items; nothing happens when there is none.
write(r, items) == IF items = <<>> THEN r ELSE [flush(r) EXCEPT !.out = @ \o items]

\* res.end()
end(r) == [flush(r) EXCEPT !.finished = TRUE]

\* res.status(code)
status(r, code) == [r EXCEPT !.statusCode = code]

\* res.json(body), headers not yet sent: Content-Type is set unless already set.
json(r, body) ==
    LET typed == IF \E h \in r.headers : h[1] = "Content-Type" THEN r
                 ELSE setHeaders(r, {<<"Content-Type", "application/json">>})
    IN  end(write(typed, <<[kind |-> "json", data |-> body]>>))

\* The SSE frames the gateway writes itself.
ChunkFrame(model, text) ==
    [kind |-> "chunk",
     data |-> [object |-> "chat.completion.chunk", model |-> model,
               content |-> text, finish_reason |-> "null"]]

DoneFrame == [kind |-> "done", data |-> [str |-> "[DONE]"]]

\* The completion object of the buffered Gemini branch.
Completion(model, text) ==
    [object |-> "chat.completion", model |-> model,
     message |-> [role |-> "assistant", content |-> text], finish_reason |-> "stop"]

-----------------------------------------------------------------------------
(* The handler's state while it runs: the part of the state it changes *)

Now ==
    [res |-> res, calls |-> calls, branches |-> branches, pc |-> pc,
     thrown |-> thrown, upstream |-> upstream]

Becomes(s) ==
    /\ res' = s.res
    /\ calls' = s.calls
    /\ branches' = s.branches
    /\ pc' = s.pc
    /\ thrown' = s.thrown
    /\ upstream' = s.upstream

NoStream == [mode |-> "none", payload |-> <<>>, pos |-> 0]

\* res.status(code).json(body) and return.
Sent(s, code, body) ==
    [s EXCEPT !.res = json(status(@, code), body), !.pc = "done"]

\* An error thrown where nothing catches it: the async handler's promise rejects.
Rejected(s, err) ==
    [s EXCEPT !.thrown = Append(@, err), !.pc = "rejected"]

\* res.status(code).json(body) in a catch block: throws once headers are sent.
RespondOrReject(s, code, body) ==
    IF s.res.headersSent
    THEN Rejected([s EXCEPT !.res = status(@, code)], "ERR_HTTP_HEADERS_SENT")
    ELSE Sent(s, code, body)

\* What JSON.stringify makes of a live stream object when it does not throw.
StreamObjectJson == [object |-> "IncomingMessage"]

\* The error body the Gemini API sends with status S (parsed JSON).
GoogleError(S) == [error |-> [code |-> S, message |-> "upstream", status |-> "UPSTREAM"]]

\* error.response?.status || 500
StatusOr500(e) == IF Has(e, "response") THEN e.response.status ELSE 500

-----------------------------------------------------------------------------
(* Errors and catch blocks *)

\* The rejection of axios.post: with response on a non-2xx answer, without on a
\* transport failure.  streamed: responseType was 'stream', so response.data is
\* the live stream object and not a parsed body.
HttpError(S, streamed) ==
    [message |-> "Request failed with status code",
     response |-> [status |-> S, streamed |-> streamed]]

NetError == [message |-> "socket hang up"]

\* An error thrown by the handler's own code inside a try block.
CodeError(name) == [message |-> name]

\* JSON.stringify(error.response.data) in a log line throws on a live stream
\* object when circular is true.
LogThrows(e, circular) ==
    /\ Has(e, "response")
    /\ e.response.streamed
    /\ circular

\* The envelope of the NVIDIA catch blocks.
Envelope(e) ==
    [error |-> [message |-> e.message, type |-> "invalid_request_error",
                code |-> StatusOr500(e)]]

MessageOnly(e) == [error |-> [message |-> e.message]]

\* catch (error) of the whole handler of Unified: always 500.
GeneralCatch(s, e) == RespondOrReject(s, 500, MessageOnly(e))

\* catch (error) of the NVIDIA try block.
NvidiaCatch(v, s, e, circular) ==
    CASE v = Unified -> GeneralCatch(s, e)
      [] v = NimOnlyB -> RespondOrReject(s, StatusOr500(e), Envelope(e))
      [] v = TwoDoors ->
            IF LogThrows(e, circular) THEN Rejected(s, "TypeError: circular structure")
            ELSE RespondOrReject(s, StatusOr500(e), MessageOnly(e))
      [] OTHER ->
            IF LogThrows(e, circular) THEN Rejected(s, "TypeError: circular structure")
            ELSE RespondOrReject(s, StatusOr500(e), Envelope(e))

\* catch (error) of the Gemini try block.
GeminiCatch(v, s, e, circular) ==
    CASE v = NativeStream ->
            IF LogThrows(e, circular) THEN Rejected(s, "TypeError: circular structure")
            ELSE RespondOrReject(s, 500, [error |-> [str |-> "Gemini Native API Error"]])
      [] v = PassThroughA ->
            RespondOrReject(s, 500,
                [error |-> [str |-> "Gemini Upstream Error - Check Server Logs"]])
      [] v = PassThroughB ->
            RespondOrReject(s, 500, [error |-> [str |-> "Gemini Upstream Error"]])
      [] v = Buffered ->
            IF Has(e, "response")
            THEN RespondOrReject(s, e.response.status, GoogleError(e.response.status))
            ELSE RespondOrReject(s, 500, [error |-> [str |-> "Gemini Upstream Error"]])
      [] v = PassThroughC ->
            IF LogThrows(e, circular) THEN Rejected(s, "TypeError: circular structure")
            ELSE IF Has(e, "response")
            THEN RespondOrReject(s, e.response.status, StreamObjectJson)
            ELSE RespondOrReject(s, 500, [error |-> [str |-> "Gemini Upstream Error"]])
      [] v = Unified ->
            IF LogThrows(e, circular)
            THEN GeneralCatch([s EXCEPT !.res = status(@, e.response.status),
                                        !.thrown = Append(@, "TypeError: circular structure")],
                              CodeError("Converting circular structure to JSON"))
            ELSE IF Has(e, "response")
            THEN RespondOrReject(s, e.response.status, StreamObjectJson)
            ELSE RespondOrReject(s, 500, [error |-> [str |-> "Gemini Upstream Error"]])
      [] v = TwoDoors ->
            IF Has(e, "response")
            THEN [s EXCEPT !.res = end(status(@, e.response.status)), !.pc = "done"]
            ELSE RespondOrReject(s, 500, [error |-> [str |-> "Proxy Server Error"]])

-----------------------------------------------------------------------------
(* The provider branches, up to their await *)

Call(provider, url, body, auth, responseType) ==
    [provider |-> provider, url |-> url, body |-> body, auth |-> auth,
     responseType |-> responseType]

\* [B]: the NVIDIA try block up to `await axios.post`.
NvidiaBranch(v, s, body) ==
    LET entered == [s EXCEPT !.branches = Append(@, "nvidia")]
    IN  IF ENABLE_THINKING_MODE = "undeclared"
        THEN NvidiaCatch(v,
                [entered EXCEPT !.thrown = Append(@, "ReferenceError")],
                CodeError("ENABLE_THINKING_MODE is not defined"), FALSE)
        ELSE [entered EXCEPT
                !.calls = Append(@, Call("nvidia", [base |-> "NIM_API_BASE", path |-> "/chat/completions"],
                                         nimRequest(v, body), NIM_API_KEY,
                                         IF Truthy(body, "stream") THEN "stream" ELSE "json")),
                !.pc = "await_nim"]

\* if (!GEMINI_API_KEY) return res.status(500).json({ error: "..." })
KeyMissing(v, s) ==
    Sent(s, 500, [error |-> [str |-> "Gemini API Key is missing"]])

\* [A]: the Gemini branch up to `await axios.post`.
GeminiBranch(v, s, body) ==
    LET entered == [s EXCEPT !.branches = Append(@, "gemini")]
    IN  IF ~GEMINI_API_KEY THEN KeyMissing(v, entered)
        ELSE IF v = NativeStream
        THEN [entered EXCEPT
                !.calls = Append(@, Call("gemini", [model |-> targetModel(body), method |-> "streamGenerateContent"],
                                         nativeBody(body), GEMINI_API_KEY, "stream")),
                !.pc = "await_gemini"]
        ELSE IF v = Buffered
        THEN [entered EXCEPT
                !.calls = Append(@, Call("gemini", [model |-> targetModel(body), method |-> "generateContent"],
                                         nativeBody(body), GEMINI_API_KEY, "json")),
                !.pc = "await_gemini"]
        ELSE [entered EXCEPT
                !.calls = Append(@, Call("gemini", [base |-> "GEMINI_URL"],
                                         newBody(body), GEMINI_API_KEY, "stream")),
                !.pc = "await_gemini"]

\* app.post(route, async (req, res) => {...}) up to the first await or response.
Handle(v, s, r) ==
    IF r.route = GeminiDoor THEN GeminiBranch(v, s, r.body)
    ELSE IF v \in DispatchingVariants /\ IsGeminiModel(r.body)
    THEN GeminiBranch(v, s, r.body)
    ELSE NvidiaBranch(v, s, r.body)

-----------------------------------------------------------------------------
(* The native stream transcoder: response.data.on('data', ...) *)

Whitespace == {" ", "\n", "\r", "\t"}

\* The characters a text delta is made of.
TextChars == {"x", "y"}

RECURSIVE split(_, _)
\* String.prototype.split(sep), sep one character
split(s, sep) ==
    IF \A i \in 1..Len(s) : s[i] # sep THEN <<s>>
    ELSE LET i == CHOOSE k \in 1..Len(s) : s[k] = sep /\ \A j \in 1..(k - 1) : s[j] # sep
         IN  <<SubSeq(s, 1, i - 1)>> \o split(SubSeq(s, i + 1, Len(s)), sep)

RECURSIVE trim(_)
\* String.prototype.trim
trim(s) ==
    IF s = <<>> THEN s
    ELSE IF s[1] \in Whitespace THEN trim(Tail(s))
    ELSE IF s[Len(s)] \in Whitespace THEN trim(SubSeq(s, 1, Len(s) - 1))
    ELSE s

DataPrefix == <<"d", "a", "t", "a", ":", " ">>

\* line.replace(/^data: /, '').trim()
cleanLine(line) ==
    trim(IF startsWith(line, DataPrefix)
         THEN SubSeq(line, Len(DataPrefix) + 1, Len(line))
         ELSE line)

\* JSON.parse(cleanLine) followed by parsed.candidates?.[0]?.content?.parts?.[0]?.text.
\* The JSON documents of the model: {w}, w made of text characters, is an object
\* whose first candidate carries the text w ({} carries none); [] is the empty
\* array.  Everything else is a SyntaxError.
ParseText(s) ==
    IF Len(s) >= 2 /\ s[1] = "{" /\ s[Len(s)] = "}"
       /\ \A i \in 2..(Len(s) - 1) : s[i] \in TextChars
    THEN [ok |-> TRUE, text |-> SubSeq(s, 2, Len(s) - 1)]
    ELSE IF s = <<"[", "]">> THEN [ok |-> TRUE, text |-> <<>>]
    ELSE [ok |-> FALSE, text |-> <<>>]

\* The body of `for (const line of lines)`: the frames one line makes the handler write.
LineFrames(model, line) ==
    IF trim(line) = <<>> THEN <<>>
    ELSE LET clean == cleanLine(line)
         IN  IF clean \in {<<"[">>, <<"]">>, <<",">>} THEN <<>>
             ELSE LET parsed == ParseText(clean)
                  IN  IF parsed.ok /\ parsed.text # <<>>
                      THEN <<ChunkFrame(model, parsed.text)>>
                      ELSE <<>>

RECURSIVE LinesFrames(_, _)
LinesFrames(model, lines) ==
    IF lines = <<>> THEN <<>>
    ELSE LineFrames(model, Head(lines)) \o LinesFrames(model, Tail(lines))

\* A faulty listener without the inner try: a line that fails to parse throws
\* to the outer catch and the rest of the chunk is lost.  C22 must tell it from
\* OnData.
OnData_StopAtBadLine(model, chunk) ==
    LET lines == split(chunk, "\n")
        bad == {k \in 1..Len(lines) :
                   /\ trim(lines[k]) # <<>>
                   /\ cleanLine(lines[k]) \notin {<<"[">>, <<"]">>, <<",">>}
                   /\ ~ParseText(cleanLine(lines[k])).ok}
    IN  IF bad = {} THEN LinesFrames(model, lines)
        ELSE LinesFrames(model,
                SubSeq(lines, 1, (CHOOSE k \in bad : \A j \in bad : k <= j) - 1))

\* The 'data' listener: the frames written for one chunk.
OnData(model, chunk) == LinesFrames(model, split(chunk, "\n"))

-----------------------------------------------------------------------------
(* What the upstreams answer *)

MaxChunk == 5       \* the most bytes (or frames) one 'data' event carries
MaxFrames == 2      \* the most chunk frames an OpenAI-compatible upstream streams

UpstreamErrorStatuses == {401, 429}

\* Bodies of streamGenerateContent, one JSON document per line.
OneObject == <<"{", "x", "}", "\n">>
TwoObjects == <<"[", "\n", "{", "x", "}", "\n", ",", "\n", "{", "y", "}", "\n", "]">>
NoText == <<"[", "\n", "{", "}", "\n", "]">>
\* An object without text, a blank line, a line that is not JSON, then text.
Noisy == <<"{", "}", "\n", "\n", "}", "\n", "{", "x", "}", "\n">>
NativePayloads == {OneObject, TwoObjects, NoText, Noisy}

\* response.data of generateContent: the candidate text, if any.
GeminiResults == Opt("text", {<<>>, <<"x", "y">>})

\* The event stream of an OpenAI-compatible upstream asked to stream: n chunk
\* frames and the [DONE] frame.
SSE(n) == [i \in 1..(n + 1) |-> IF i <= n THEN ChunkFrame(<<"u">>, <<"x">>) ELSE DoneFrame]

\* The parsed body of an OpenAI-compatible upstream not asked to stream.
UpstreamJsons ==
    {[object |-> "chat.completion", id |-> "cmpl-1"],
     [object |-> "chat.completion", id |-> "cmpl-2"]}

\* The same body as the bytes of a stream.
Raw(j) == <<[kind |-> "raw", data |-> j]>>

Min(a, b) == IF a < b THEN a ELSE b

-----------------------------------------------------------------------------
(* After the await: the upstream answered 2xx *)

\* response.data.pipe(res), after the three setHeader calls where the program has them.
Pipe(v, s, payload) ==
    [s EXCEPT !.res = IF v \in {Unified, TwoDoors} /\ s.pc = "await_gemini" THEN @
                      ELSE setHeaders(@, EventStreamHeaders),
              !.upstream = [mode |-> "pipe", payload |-> payload, pos |-> 0],
              !.pc = "relay_pipe"]

\* A faulty step 6 that, like the native relay, writes a chunk only for a
\* non-empty text: C23 must tell it from BufferedAnswer.
BufferedAnswer_OmitsEmpty(r, body, text) ==
    IF Truthy(body, "stream")
    THEN end(write(write(setHeaders(r, EventStreamHeaders),
                         IF text = <<>> THEN <<>> ELSE <<ChunkFrame(body.model, text)>>),
                   <<DoneFrame>>))
    ELSE json(r, Completion(body.model, text))

\* Step 6 of the buffered branch: one chunk and [DONE], or one completion object.
BufferedAnswer(r, body, text) ==
    IF Truthy(body, "stream")
    THEN end(write(write(setHeaders(r, EventStreamHeaders),
                         <<ChunkFrame(body.model, text)>>),
                   <<DoneFrame>>))
    ELSE json(r, Completion(body.model, text))

\* Whether the Gemini try block of a program runs on into the NVIDIA block
\* after it answered.
FallsThrough(v) == v = Buffered

\* The Gemini try block after `await axios.post` resolved with data.
GeminiSuccess(v, s, body, data) ==
    CASE v = NativeStream ->
            [s EXCEPT !.res = setHeaders(@, EventStreamHeaders),
                      !.upstream = [mode |-> "native", payload |-> data, pos |-> 0],
                      !.pc = "relay_native"]
      [] v = Buffered ->
            LET text == IF Has(data, "text") THEN data.text ELSE <<>>
                answered == [s EXCEPT !.res = BufferedAnswer(@, body, text), !.pc = "done"]
            IN  IF FallsThrough(v) THEN NvidiaBranch(v, answered, body) ELSE answered
      [] OTHER -> Pipe(v, s, data)

\* A faulty NVIDIA block that wraps the upstream body in an object of its own:
\* C15 must tell it from NvidiaSuccess.
NvidiaSuccess_Wrapped(v, s, body, data) ==
    IF s.res.headersSent
    THEN NvidiaCatch(v, [s EXCEPT !.thrown = Append(@, "ERR_HTTP_HEADERS_SENT")],
                     CodeError("Cannot set headers after they are sent to the client"),
                     FALSE)
    ELSE IF Truthy(body, "stream") THEN Pipe(v, s, data)
    ELSE Sent(s, s.res.statusCode, [object |-> "chat.completion", upstream |-> data])

\* The NVIDIA try block after `await axios.post` resolved with data.
NvidiaSuccess(v, s, body, data) ==
    IF s.res.headersSent
    THEN NvidiaCatch(v, [s EXCEPT !.thrown = Append(@, "ERR_HTTP_HEADERS_SENT")],
                     CodeError("Cannot set headers after they are sent to the client"),
                     FALSE)
    ELSE IF Truthy(body, "stream") THEN Pipe(v, s, data)
    ELSE Sent(s, s.res.statusCode, data)

-----------------------------------------------------------------------------
(* Actions *)

Deployment == <<variant, GEMINI_API_KEY, NIM_API_KEY, ENABLE_THINKING_MODE>>

NoRequest == [route |-> "none", body |-> <<>>]

\* The state that only the specifications of concurrent relays and of the
\* translators use.
Aside == <<inflight, pure>>

NoInflight == <<>>
NoPure == [fn |-> "none"]

Init ==
    /\ variant \in Variants
    /\ GEMINI_API_KEY \in BOOLEAN
    /\ NIM_API_KEY \in BOOLEAN
    /\ ENABLE_THINKING_MODE \in
            (IF variant \in ThinkingUndeclaredVariants
             THEN {"undeclared", "false"} ELSE {"false"})
    /\ req = NoRequest
    /\ pc = "idle"
    /\ res = ResInit
    /\ calls = <<>>
    /\ branches = <<>>
    /\ upstream = NoStream
    /\ thrown = <<>>
    /\ answers = <<>>
    /\ inflight = NoInflight
    /\ pure = NoPure

\* A request arrives and its handler runs to its first await or to its answer.
Receive ==
    /\ pc = "idle"
    /\ \E route \in Routes(variant), body \in Bodies :
          LET r == [route |-> route, body |-> body]
          IN  /\ req' = r
              /\ Becomes(Handle(variant, Now, r))
    /\ UNCHANGED <<Aside, Deployment, answers>>

\* The data a 2xx answer of the Gemini upstream carries, by what was asked of it.
GeminiData(v, body) ==
    CASE v = NativeStream -> NativePayloads
      [] v = Buffered -> GeminiResults
      [] OTHER -> IF Truthy(body, "stream") THEN {SSE(n) : n \in 0..MaxFrames}
                  ELSE {Raw(j) : j \in UpstreamJsons}

\* The answer of an upstream call: "ok" (2xx), "http" (another status) or "net"
\* (no response), and whether the client response had started by then.
Answer(kind, S) == [kind |-> kind, status |-> S, headersSent |-> res.headersSent]

\* A 2xx answer and the response.data it carries.
Ok(data) == [kind |-> "ok", status |-> 200, headersSent |-> res.headersSent, data |-> data]

GeminiOk ==
    /\ pc = "await_gemini"
    /\ \E data \in GeminiData(variant, req.body) :
          /\ Becomes(GeminiSuccess(variant, Now, req.body, data))
          /\ answers' = Append(answers, Ok(data))
    /\ UNCHANGED <<Aside, Deployment, req>>

GeminiFails ==
    /\ pc = "await_gemini"
    /\ \/ \E S \in UpstreamErrorStatuses, circular \in BOOLEAN :
             /\ Becomes(GeminiCatch(variant, Now,
                                    HttpError(S, calls[Len(calls)].responseType = "stream"),
                                    circular))
             /\ answers' = Append(answers, Answer("http", S))
       \/ /\ Becomes(GeminiCatch(variant, Now, NetError, FALSE))
          /\ answers' = Append(answers, Answer("net", 0))
    /\ UNCHANGED <<Aside, Deployment, req>>

NvidiaOk ==
    /\ pc = "await_nim"
    /\ \E data \in (IF Truthy(req.body, "stream") THEN {SSE(n) : n \in 0..MaxFrames}
                    ELSE UpstreamJsons) :
          /\ Becomes(NvidiaSuccess(variant, Now, req.body, data))
          /\ answers' = Append(answers, Ok(data))
    /\ UNCHANGED <<Aside, Deployment, req>>

NvidiaFails ==
    /\ pc = "await_nim"
    /\ \/ \E S \in UpstreamErrorStatuses, circular \in BOOLEAN :
             /\ Becomes(NvidiaCatch(variant, Now,
                                    HttpError(S, calls[Len(calls)].responseType = "stream"),
                                    circular))
             /\ answers' = Append(answers, Answer("http", S))
       \/ /\ Becomes(NvidiaCatch(variant, Now, NetError, FALSE))
          /\ answers' = Append(answers, Answer("net", 0))
    /\ UNCHANGED <<Aside, Deployment, req>>

\* The next n bytes (frames) of the upstream stream.
NextChunk(n) == SubSeq(upstream.payload, upstream.pos + 1, upstream.pos + n)

ChunkSizes == 1..Min(MaxChunk, Len(upstream.payload) - upstream.pos)

\* pipe: a 'data' event of the upstream is written to res unchanged.
PipeData ==
    /\ pc = "relay_pipe"
    /\ \E n \in ChunkSizes :
          /\ res' = write(res, NextChunk(n))
          /\ upstream' = [upstream EXCEPT !.pos = @ + n]
    /\ UNCHANGED <<Aside, Deployment, req, pc, calls, branches, thrown, answers>>

\* pipe: the 'end' event of the upstream ends res.
PipeEnd ==
    /\ pc = "relay_pipe"
    /\ upstream.pos = Len(upstream.payload)
    /\ res' = end(res)
    /\ pc' = "done"
    /\ UNCHANGED <<Aside, Deployment, req, calls, branches, thrown, upstream, answers>>

\* response.data.on('data', ...)
NativeData ==
    /\ pc = "relay_native"
    /\ \E n \in ChunkSizes :
          /\ res' = write(res, OnData(req.body.model, NextChunk(n)))
          /\ upstream' = [upstream EXCEPT !.pos = @ + n]
    /\ UNCHANGED <<Aside, Deployment, req, pc, calls, branches, thrown, answers>>

\* A faulty 'end' listener that ends the response without the [DONE] frame: C2
\* must tell it from NativeEnd.
NativeEnd_NoSentinel ==
    /\ pc = "relay_native"
    /\ upstream.pos = Len(upstream.payload)
    /\ res' = end(res)
    /\ pc' = "done"
    /\ UNCHANGED <<Aside, Deployment, req, calls, branches, thrown, upstream, answers>>

\* response.data.on('end', ...)
NativeEnd ==
    /\ pc = "relay_native"
    /\ upstream.pos = Len(upstream.payload)
    /\ res' = end(write(res, <<DoneFrame>>))
    /\ pc' = "done"
    /\ UNCHANGED <<Aside, Deployment, req, calls, branches, thrown, upstream, answers>>

\* The upstream stream fails before its end ('error' on response.data).  The
\* handler registers no 'error' listener and pipe() neither ends nor destroys
\* res when its source fails.  Whether the HTTP client has a listener of its own
\* on the stream depends on the axios release installed: with one, the error is
\* swallowed and res stays open ("aborted"); without one, the 'error' event is
\* unhandled and the process exits ("crashed"), closing every socket.
UpstreamAbort ==
    /\ pc \in {"relay_pipe", "relay_native"}
    /\ pc' \in {"aborted", "crashed"}
    /\ UNCHANGED <<Aside, Deployment, req, res, calls, branches, thrown, upstream, answers>>

Next ==
    \/ Receive
    \/ GeminiOk
    \/ GeminiFails
    \/ NvidiaOk
    \/ NvidiaFails
    \/ PipeData
    \/ PipeEnd
    \/ NativeData
    \/ NativeEnd
    \/ UpstreamAbort

Spec == Init /\ [][Next]_vars

\* The event loop runs every handler and listener whose event is pending.
LiveSpec == Spec /\ WF_vars(Next)

-----------------------------------------------------------------------------
(* Several requests in flight, and the client side of a relay *)

MaxRequests == 2        \* the most requests in flight at once
HighWaterMark == 2      \* writableHighWaterMark of res, counted in written frames

\* What a handler starts from: a fresh res and nothing done.
Idle ==
    [res |-> ResInit, calls |-> <<>>, branches |-> <<>>, pc |-> "idle",
     thrown |-> <<>>, upstream |-> NoStream]

\* A request in flight: its body, the state h of its handler (the handler's own
\* req, res and response.data), the chunks its 'data' events delivered, how many
\* written frames its client has taken, whether a write returned false since
\* the last 'drain'; slow: the client takes data only now and then; natives,
\* streams: the bodies its streamGenerateContent call and its OpenAI-compatible
\* call may answer.
NewRequest(slow, natives, streams) ==
    [body |-> <<>>, h |-> Idle, received |-> <<>>, taken |-> 0, needDrain |-> FALSE,
     slow |-> slow, natives |-> natives, streams |-> streams]

\* Streaming requests, one per provider.
StreamBodies ==
    {[messages |-> <<[role |-> "user", content |-> "hi"]>>, model |-> m, stream |-> TRUE] :
        m \in {gpt_4o, gemini_25_flash}}

\* A faulty listener that writes to a res kept in one variable of the module,
\* which holds the res of the first request: C12 must tell it from Target.
Target_Shared(i) == 1

\* The response a listener of request i writes to: the res its closure captured.
Target(i) == i

\* The return value of res.write as the request sees it: the frames written and
\* not yet taken reach the high-water mark.  A fast client takes them at once.
Written(r, res2) ==
    IF r.slow
    THEN [r EXCEPT !.h.res = res2,
                   !.needDrain = @ \/ (Len(res2.out) - r.taken >= HighWaterMark)]
    ELSE [r EXCEPT !.h.res = res2, !.taken = Len(res2.out)]

\* The chunk of the next 'data' event of stream u, n bytes (frames) long.
ChunkOf(u, n) == SubSeq(u.payload, u.pos + 1, u.pos + n)

SizesOf(u) == 1..Min(MaxChunk, Len(u.payload) - u.pos)

\* What the steps of the requests in flight leave alone: the deployment, the
\* single-request state and the translator state.
Rest == <<Deployment, req, pc, res, calls, branches, upstream, thrown, answers, pure>>

\* Request i arrives; its handler runs to its first await or to its answer.
ConcReceive(i) ==
    /\ inflight[i].h.pc = "idle"
    /\ \E body \in StreamBodies :
          inflight' = [inflight EXCEPT
                         ![i].body = body,
                         ![i].h = Handle(variant, Idle, [route |-> V1, body |-> body])]
    /\ UNCHANGED Rest

\* await axios.post of request i resolves.
ConcOk(i) ==
    LET r == inflight[i]
    IN  /\ UNCHANGED Rest
        /\ \/ /\ r.h.pc = "await_gemini"
              /\ \E data \in (CASE variant = NativeStream -> r.natives
                                 [] variant = Buffered -> GeminiResults
                                 [] OTHER -> r.streams) :
                    inflight' = [inflight EXCEPT
                                   ![i].h = GeminiSuccess(variant, r.h, r.body, data)]
           \/ /\ r.h.pc = "await_nim"
              /\ \E data \in r.streams :
                    inflight' = [inflight EXCEPT
                                   ![i].h = NvidiaSuccess(variant, r.h, r.body, data)]

\* await axios.post of request i rejects.
ConcFails(i) ==
    LET r == inflight[i]
    IN  /\ r.h.pc \in {"await_gemini", "await_nim"}
        /\ \E S \in UpstreamErrorStatuses :
              inflight' = [inflight EXCEPT
                  ![i].h = IF r.h.pc = "await_gemini"
                           THEN GeminiCatch(variant, r.h, HttpError(S, TRUE), FALSE)
                           ELSE NvidiaCatch(variant, r.h, HttpError(S, TRUE), FALSE)]
        /\ UNCHANGED Rest

\* A 'data' event of the upstream of request i.  pipe() has paused the stream
\* while a write returned false and 'drain' has not come; the 'data' listener
\* of the native branch calls res.write and drops what it returns.
ConcData(i) ==
    LET r == inflight[i]
        u == r.h.upstream
    IN  /\ r.h.pc \in {"relay_pipe", "relay_native"}
        /\ r.h.pc = "relay_pipe" => ~r.needDrain
        /\ \E n \in SizesOf(u) :
              LET chunk == ChunkOf(u, n)
                  items == IF r.h.pc = "relay_native" THEN OnData(r.body.model, chunk)
                           ELSE chunk
              IN  inflight' = [inflight EXCEPT
                      ![Target(i)] = Written(@, write(@.h.res, items)),
                      ![i].h.upstream.pos = @ + n,
                      ![i].received = Append(@, chunk)]
        /\ UNCHANGED Rest

\* The 'end' event of the upstream of request i.
ConcEnd(i) ==
    LET r == inflight[i]
    IN  /\ r.h.pc \in {"relay_pipe", "relay_native"}
        /\ r.h.upstream.pos = Len(r.h.upstream.payload)
        /\ inflight' = [inflight EXCEPT
                ![Target(i)] = Written(@, IF r.h.pc = "relay_native"
                                          THEN end(write(@.h.res, <<DoneFrame>>))
                                          ELSE end(@.h.res)),
                ![i].h.pc = "done"]
        /\ UNCHANGED Rest

\* The client of request i takes what was written: res emits 'drain'.
ClientDrain(i) ==
    /\ inflight[i].taken < Len(inflight[i].h.res.out)
    /\ inflight' = [inflight EXCEPT ![i].taken = Len(inflight[i].h.res.out),
                                    ![i].needDrain = FALSE]
    /\ UNCHANGED Rest

\* A deployment with both keys set and no request yet.
Deployed ==
    /\ variant \in Variants
    /\ GEMINI_API_KEY = TRUE
    /\ NIM_API_KEY = TRUE
    /\ ENABLE_THINKING_MODE = "false"
    /\ req = NoRequest
    /\ pc = "idle"
    /\ res = ResInit
    /\ calls = <<>>
    /\ branches = <<>>
    /\ upstream = NoStream
    /\ thrown = <<>>
    /\ answers = <<>>

ConcInit ==
    /\ Deployed
    /\ pure = NoPure
    /\ inflight = [i \in 1..MaxRequests |-> NewRequest(FALSE, {OneObject}, {SSE(1)})]

ConcNext ==
    \/ \E i \in DOMAIN inflight : ConcReceive(i)
    \/ \E i \in DOMAIN inflight : ConcOk(i)
    \/ \E i \in DOMAIN inflight : ConcFails(i)
    \/ \E i \in DOMAIN inflight : ConcData(i)
    \/ \E i \in DOMAIN inflight : ConcEnd(i)

ConcSpec == ConcInit /\ [][ConcNext]_vars

FlowInit ==
    /\ Deployed
    /\ pure = NoPure
    /\ inflight = [i \in {1} |-> NewRequest(TRUE, NativePayloads, {SSE(n) : n \in 0..MaxFrames})]

FlowNext ==
    \/ ConcNext
    \/ \E i \in DOMAIN inflight : ClientDrain(i)

FlowSpec == FlowInit /\ [][FlowNext]_vars

-----------------------------------------------------------------------------
(* The translators on their own *)

MaxMessages == 3        \* the most messages of a request

Roles == {"system", "user", "assistant"}
Texts == {"a", "b"}

\* req.body.messages: up to MaxMessages messages of any role and text.
MessageSeqs ==
    UNION {[1..n -> [role : Roles, content : Texts]] : n \in 1..MaxMessages}

\* req.body of a client that may send repetition_penalty (in tenths: 0, 1.2).
PenaltyBodies ==
    {Merge("messages" :> <<[role |-> "user", content |-> "hi"]>>, Merge(m, Merge(s, p))) :
        m \in Opt("model", {gemini_pro}),
        s \in Opt("stream", BOOLEAN),
        p \in Opt("repetition_penalty", {0, 12})}

\* req.body of a client that sends provider-hint fields next to the five the
\* handler reads (top_p in tenths).
HintBodies ==
    {Merge("messages" :> ms, Merge(m, Merge(t, Merge(p, q)))) :
        ms \in MessageLists,
        m \in Opt("model", {gpt_4o, mistral}),
        t \in Opt("temperature", Temperatures),
        p \in Opt("top_p", {9}),
        q \in Opt("stop", {"END"})}

TranslatorInit ==
    /\ Deployed
    /\ inflight = NoInflight
    /\ \/ /\ pure \in {[fn |-> "nimRequest", input |-> b] : b \in HintBodies}
       \/ /\ variant \in NativeVariants
          /\ pure \in {[fn |-> "nativeBody", input |-> [messages |-> ms]] : ms \in MessageSeqs}
       \/ /\ variant \in DispatchingVariants \cup {TwoDoors}
          /\ variant \notin NativeVariants
          /\ pure \in {[fn |-> "newBody", input |-> b] : b \in PenaltyBodies}

\* Steps 1 and 2 of the native Gemini branch: the loop over messages and nativeBody.
ApplyNativeBody ==
    /\ pure.fn = "nativeBody"
    /\ ~Has(pure, "output")
    /\ pure' = [fn |-> pure.fn, input |-> pure.input, output |-> nativeBody(pure.input)]
    /\ UNCHANGED <<Deployment, req, pc, res, calls, branches, upstream, thrown, answers,
                   inflight>>

\* const newBody = { ...req.body } and the delete, which acts on the copy.
ApplyNewBody ==
    /\ pure.fn = "newBody"
    /\ ~Has(pure, "output")
    /\ pure' = [fn |-> pure.fn, input |-> pure.input, output |-> newBody(pure.input)]
    /\ UNCHANGED <<Deployment, req, pc, res, calls, branches, upstream, thrown, answers,
                   inflight>>

\* const { model, messages, temperature, max_tokens, stream } = req.body and
\* const nimRequest = {...} of the NVIDIA try block.
ApplyNimRequest ==
    /\ pure.fn = "nimRequest"
    /\ ~Has(pure, "output")
    /\ pure' = [fn |-> pure.fn, input |-> pure.input,
                output |-> nimRequest(variant, pure.input)]
    /\ UNCHANGED <<Deployment, req, pc, res, calls, branches, upstream, thrown, answers,
                   inflight>>

TranslatorNext ==
    \/ ApplyNativeBody
    \/ ApplyNewBody
    \/ ApplyNimRequest

TranslatorSpec == TranslatorInit /\ [][TranslatorNext]_vars

-----------------------------------------------------------------------------
(* Properties *)

\* The first upstream call of the request was answered 2xx.
UpstreamSucceeded == answers # <<>> /\ answers[1].kind = "ok"

EventStreamType == <<"Content-Type", "text/event-stream">>

\* C1: a POST /v1/chat/completions request whose stream flag is false or absent
\* and whose upstream call succeeds is answered with exactly one JSON object:
\* the text/event-stream header is never set and no SSE frame is written.
C1_NonStreamingGetsOneJson ==
    (req.route = V1 /\ ~Truthy(req.body, "stream") /\ UpstreamSucceeded)
        => /\ EventStreamType \notin res.headers
           /\ \A i \in 1..Len(res.out) : res.out[i].kind = "json"
           /\ Len(res.out) <= 1
           /\ (res.finished => Len(res.out) = 1)

\* chunk frames, then possibly the [DONE] frame as the last thing written
FramesThenDone(out) ==
    \A i \in 1..Len(out) :
        \/ out[i].kind = "chunk"
        \/ out[i].kind = "done" /\ i = Len(out)

\* C2: for a request with stream=true whose upstream call succeeds, the client
\* output is a sequence of chunk frames followed, once the upstream stream has
\* ended, by exactly one [DONE] frame; the response is then ended and nothing
\* is written after it, on the native path and on the pass-through paths.
C2_StreamEndsWithOneDone ==
    (Truthy(req.body, "stream") /\ UpstreamSucceeded)
        => /\ FramesThenDone(res.out)
           /\ (res.finished => res.out # <<>> /\ res.out[Len(res.out)].kind = "done")
           /\ (pc = "done" => res.finished)

\* C2 witness: a native-path stream that relayed a chunk, its [DONE] and ended.
C2_Witness ==
    /\ variant = NativeStream
    /\ Truthy(req.body, "stream")
    /\ UpstreamSucceeded
    /\ pc = "done"
    /\ res.finished
    /\ Len(res.out) >= 2
    /\ res.out[1].kind = "chunk"

\* C3: when the upstream answers a non-2xx status S before any byte was
\* relayed and the handler answers, the client receives status S and an error
\* body whose code is S.
C3_UpstreamStatusPropagated ==
    \A i \in 1..Len(answers) :
        (answers[i].kind = "http" /\ ~answers[i].headersSent /\ pc = "done")
            => /\ res.headersSent
               /\ res.wire.status = answers[i].status
               /\ Len(res.out) = 1
               /\ res.out[1].kind = "json"
               /\ Has(res.out[1].data, "error")
               /\ Has(res.out[1].data.error, "code")
               /\ res.out[1].data.error.code = answers[i].status

\* C4: on the native streaming path, however the upstream bytes are split into
\* 'data' events, a response that holds a candidate object with non-empty text
\* gives the client a chunk with non-empty delta.content before [DONE].
C4_TextSurvivesFragmentation ==
    (variant = NativeStream /\ upstream.mode = "native" /\ pc = "done"
     /\ OnData(req.body.model, upstream.payload) # <<>>)
        => \E i \in 1..Len(res.out) :
              /\ res.out[i].kind = "chunk"
              /\ res.out[i].data.content # <<>>
              /\ \E j \in (i + 1)..Len(res.out) : res.out[j].kind = "done"

\* C5: a request runs exactly one provider branch and issues at most one
\* upstream call: the Gemini branch never runs on into the NVIDIA branch and no
\* call is repeated.
C5_OneBranchOneCall ==
    /\ Len(branches) <= 1
    /\ Len(calls) <= 1

\* The credential of the branch the request was dispatched to is set.
KeyPresent ==
    IF branches[1] = "gemini" THEN GEMINI_API_KEY ELSE NIM_API_KEY

\* C6: when the credential of the selected provider is absent the request is
\* answered 500 and no upstream call is issued for it.
C6_MissingKeyFailsFast ==
    (branches # <<>> /\ ~KeyPresent)
        => /\ calls = <<>>
           /\ pc = "done"
           /\ res.wire.status = 500

\* The value MODEL_MAPPING holds under key k.
MappedValue(v, k) == (CHOOSE e \in MODEL_MAPPING(v) : e[1] = k)[2]

IsAlias(v, body) == Has(body, "model") /\ body.model \in MappingKeys(v)

\* C7: the registry lookup yields the mapped value for every key of
\* MODEL_MAPPING and the default 'meta/llama-3.1-405b-instruct' for every other
\* model id, absent ids included.
C7_LookupTotal ==
    \A i \in 1..Len(calls) :
        calls[i].provider = "nvidia"
            => calls[i].body.model =
                  (IF IsAlias(variant, req.body)
                   THEN MappedValue(variant, req.body.model)
                   ELSE "meta/llama-3.1-405b-instruct")

\* C8: every alias key of MODEL_MAPPING sent as the model of a
\* POST /v1/chat/completions request produces an NVIDIA upstream request whose
\* model is the value mapped to the alias.
C8_AliasReachesNvidia ==
    (req.route = V1 /\ IsAlias(variant, req.body) /\ calls # <<>>)
        => /\ calls[1].provider = "nvidia"
           /\ calls[1].body.model = MappedValue(variant, req.body.model)

NoSampling(body) == ~Has(body, "temperature") /\ ~Has(body, "max_tokens")

IsNativeCall(c) == c.provider = "gemini" /\ Has(c.url, "method")

\* C9: when temperature and max_tokens are absent from the request the
\* outbound body carries temperature 0.6 and max_tokens 1024 on the NVIDIA
\* path, and generationConfig.temperature 0.7 and maxOutputTokens 8192 on the
\* Gemini native path.
C9_DefaultsWhenAbsent ==
    \A i \in 1..Len(calls) :
        NoSampling(req.body)
            => /\ calls[i].provider = "nvidia"
                    => calls[i].body.temperature = 6 /\ calls[i].body.max_tokens = 1024
               /\ IsNativeCall(calls[i])
                    => /\ calls[i].body.generationConfig.temperature = 7
                       /\ calls[i].body.generationConfig.maxOutputTokens = 8192

\* C9 witness: a native Gemini call issued for a request without temperature
\* and max_tokens.
C9_Witness ==
    /\ calls # <<>>
    /\ IsNativeCall(calls[1])
    /\ NoSampling(req.body)

\* C10: every failure answered before any response byte was sent carries a body
\* of one shape, an object under 'error' with a message, a kind/type and a code,
\* the code being the HTTP status sent.
C10_UniformErrorEnvelope ==
    (pc = "done" /\ res.headersSent /\ res.wire.status >= 400)
        => /\ Len(res.out) = 1
           /\ res.out[1].kind = "json"
           /\ Has(res.out[1].data, "error")
           /\ {"message", "code"} \subseteq DOMAIN res.out[1].data.error
           /\ DOMAIN res.out[1].data.error \cap {"type", "kind", "status"} # {}
           /\ res.out[1].data.error.code = res.wire.status

\* The response of the request is closed: it ended, or the process went down
\* with its sockets.
Closed == res.finished \/ pc = "crashed"

\* C11: a request that reaches RELAYING eventually has its client response
\* closed, also when the upstream stream fails instead of ending.
C11_RelayEventuallyCloses ==
    (pc \in {"relay_pipe", "relay_native"}) ~> Closed

\* The frames that the chunks of one upstream stand for, in the order received:
\* each chunk transcoded on its own on the native path, the chunk itself on a
\* pass-through path.
RECURSIVE Image(_, _, _)
Image(native, model, chunks) ==
    IF chunks = <<>> THEN <<>>
    ELSE (IF native THEN OnData(model, Head(chunks)) ELSE Head(chunks))
         \o Image(native, model, Tail(chunks))

Relayed(r) == r.h.upstream.mode # "none"

C13_NoReadWhileClientNotReady ==
    [][\A i \in DOMAIN inflight :
          (/\ Relayed(inflight[i])
           /\ inflight'[i].h.upstream.pos > inflight[i].h.upstream.pos)
              => ~inflight[i].needDrain]_vars

\* C14: whenever an upstream byte stream is piped to the client, the headers
\* Content-Type: text/event-stream, Cache-Control: no-cache and Connection:
\* keep-alive are on the wire with the first relayed byte.
C14_RelayHeadersForced ==
    (upstream.mode = "pipe" /\ res.out # <<>>)
        => EventStreamHeaders \subseteq res.wire.headers

\* C15: a request without stream that ran the NVIDIA branch and whose upstream
\* answered 2xx is answered 200 with exactly the upstream's parsed body, and
\* for the model 'gpt-4o' the upstream request carried the model
\* 'meta/llama-3.1-405b-instruct'.
C15_NimJsonUnmodified ==
    (branches = <<"nvidia">> /\ ~Truthy(req.body, "stream") /\ UpstreamSucceeded)
        => /\ pc = "done"
           /\ res.finished
           /\ res.wire.status = 200
           /\ res.out = <<[kind |-> "json", data |-> answers[1].data]>>
           /\ (Has(req.body, "model") /\ req.body.model = gpt_4o)
                 => calls[1].body.model = "meta/llama-3.1-405b-instruct"

\* C15 witness: {model: 'gpt-4o', messages: [{role: 'user', content: 'hi'}]}
\* without stream, answered after a 2xx of the NVIDIA upstream.
C15_Witness ==
    /\ branches = <<"nvidia">>
    /\ UpstreamSucceeded
    /\ Has(req.body, "model")
    /\ req.body.model = gpt_4o
    /\ req.body.messages = <<[role |-> "user", content |-> "hi"]>>
    /\ ~Has(req.body, "stream")
    /\ pc = "done"
    /\ res.finished

\* The messages that are not system messages, in order.
NonSystem(messages) == SelectSeq(messages, LAMBDA m : m.role # "system")

\* The native body of the request was built.
Translated == pure.fn = "nativeBody" /\ Has(pure, "output")

\* The way back from a native role to the role of a message.
RoleBack(role) == IF role = "model" THEN "assistant" ELSE role

\* C16: every turn of the native body carries in parts[0].text exactly the
\* content of the non-system message it came from, its role is 'model' for
\* assistant and 'user' for user, and mapping 'model' back to 'assistant'
\* gives the role of that message.
C16_TextAndRolePreserved ==
    Translated =>
        LET from == NonSystem(pure.input.messages)
            turns == pure.output.contents
        IN  \A k \in 1..Min(Len(turns), Len(from)) :
                /\ turns[k].parts[1].text = from[k].content
                /\ turns[k].role = (IF from[k].role = "assistant" THEN "model" ELSE "user")
                /\ RoleBack(turns[k].role) = from[k].role

\* C16 witness: a translated request with an assistant message and a user message.
C16_Witness ==
    /\ Translated
    /\ \E j, k \in 1..Len(pure.input.messages) :
          /\ pure.input.messages[j].role = "assistant"
          /\ pure.input.messages[k].role = "user"
          /\ pure.input.messages[j].content # pure.input.messages[k].content

\* C18: contents holds exactly one turn for each message that is not a system
\* message, in the order of those messages, and none for a system message.
C18_OneTurnPerNonSystem ==
    Translated =>
        LET from == NonSystem(pure.input.messages)
            turns == pure.output.contents
        IN  /\ Len(turns) = Len(from)
            /\ \A k \in 1..Len(turns) : turns[k].parts = <<[text |-> from[k].content]>>

\* C18 witness: a translated request with a system message between two others
\* of different text.
C18_Witness ==
    /\ Translated
    /\ Len(pure.input.messages) = 3
    /\ pure.input.messages[1].role # "system"
    /\ pure.input.messages[2].role = "system"
    /\ pure.input.messages[3].role # "system"
    /\ pure.input.messages[1].content # pure.input.messages[3].content

\* The system messages, in order.
SystemMessages(messages) == SelectSeq(messages, LAMBDA m : m.role = "system")

\* C19: the native body has no systemInstruction when the request has no system
\* message, and otherwise one that carries the text of the last system message.
C19_LastSystemWins ==
    Translated =>
        LET sys == SystemMessages(pure.input.messages)
            si == pure.output.systemInstruction
        IN  IF sys = <<>> THEN ~Has(si, "value")
            ELSE /\ Has(si, "value")
                 /\ si.value = [parts |-> <<[text |-> sys[Len(sys)].content]>>]

\* C19 witness: a translated request with two system messages of different
\* text and another message after them.
C19_Witness ==
    /\ Translated
    /\ Len(pure.input.messages) = 3
    /\ pure.input.messages[1].role = "system"
    /\ pure.input.messages[2].role = "system"
    /\ pure.input.messages[1].content # pure.input.messages[2].content
    /\ pure.input.messages[3].role = "user"

\* C20: the body sent on the Gemini OpenAI-compatible path has no
\* repetition_penalty field whatever the client sent, every other field of the
\* request body is in it with its value (the step that builds it leaves the
\* request body, pure.input, as it was).
C20_PenaltyAlwaysStripped ==
    (pure.fn = "newBody" /\ Has(pure, "output"))
        => /\ ~Has(pure.output, "repetition_penalty")
           /\ DOMAIN pure.output = DOMAIN pure.input \ {"repetition_penalty"}
           /\ \A f \in DOMAIN pure.output : pure.output[f] = pure.input[f]

\* Characters c and d are the same letter, in whatever case c is.
SameLetter(c, d) == c = d \/ (c \in DOMAIN UpperToLower /\ UpperToLower[c] = d)

\* The request has a model id in which 'gemini' occurs, in any letter case.
NamesGemini(body) ==
    /\ Has(body, "model")
    /\ \E i \in 1..(Len(body.model) - Len(gemini) + 1) :
          \A k \in 1..Len(gemini) : SameLetter(body.model[i + k - 1], gemini[k])

DeniedFields == {"repetition_penalty"}

\* C21: the body sent on the NVIDIA path carries the messages of the request
\* unchanged and every field of the request body that is not denied, the
\* provider-hint fields other than model, temperature, max_tokens and stream
\* included.
C21_NimBodyKeepsClientFields ==
    (pure.fn = "nimRequest" /\ Has(pure, "output"))
        => /\ pure.output.messages = pure.input.messages
           /\ \A f \in DOMAIN pure.input \ DeniedFields : Has(pure.output, f)

\* The line fails to parse although it is neither blank nor a lone bracket or comma.
Unparsable(line) ==
    /\ trim(line) # <<>>
    /\ cleanLine(line) \notin {<<"[">>, <<"]">>, <<",">>}
    /\ ~ParseText(cleanLine(line)).ok

\* The line is one of those that must be passed over: blank, a lone bracket or
\* comma, not JSON, or JSON without a non-empty text.
PassedOver(line) ==
    \/ trim(line) = <<>>
    \/ cleanLine(line) \in {<<"[">>, <<"]">>, <<",">>}
    \/ Unparsable(line)
    \/ ParseText(cleanLine(line)).text = <<>>

\* One frame for each line that carries text, in the order of the lines.
RECURSIVE FramesOfLines(_, _)
FramesOfLines(model, lines) ==
    IF lines = <<>> THEN <<>>
    ELSE (IF PassedOver(Head(lines)) THEN <<>>
          ELSE <<ChunkFrame(model, ParseText(cleanLine(Head(lines))).text)>>)
         \o FramesOfLines(model, Tail(lines))

RECURSIVE FramesOfChunks(_, _)
FramesOfChunks(model, chunks) ==
    IF chunks = <<>> THEN <<>>
    ELSE FramesOfLines(model, split(Head(chunks), "\n"))
         \o FramesOfChunks(model, Tail(chunks))

\* C22: on the native streaming path a line that is blank, a lone bracket or
\* comma, not JSON, or JSON without text produces no output and no error and
\* leaves the response open; every line that carries text, in the same chunk
\* and in later chunks, is emitted, in order.
C22_BadLinesSkippedOnly ==
    \A i \in DOMAIN inflight :
        LET r == inflight[i]
        IN  r.h.upstream.mode = "native"
                => /\ r.h.res.out =
                        FramesOfChunks(r.body.model, r.received)
                        \o (IF r.h.pc = "done" THEN <<DoneFrame>> ELSE <<>>)
                   /\ r.h.thrown = <<>>
                   /\ r.h.pc \in {"relay_native", "done"}
                   /\ r.h.pc = "relay_native" => ~r.h.res.finished

\* C22 witness: a chunk in which a line that is not JSON comes before a line
\* with text, the text emitted and the response still open.
C22_Witness ==
    /\ inflight # NoInflight
    /\ \E i \in DOMAIN inflight :
          LET r == inflight[i]
          IN  /\ r.h.pc = "relay_native"
              /\ ~r.h.res.finished
              /\ r.h.res.out # <<>>
              /\ \E k \in 1..Len(r.received) :
                    LET lines == split(r.received[k], "\n")
                    IN  \E a, b \in 1..Len(lines) :
                            /\ a < b
                            /\ Unparsable(lines[a])
                            /\ ~PassedOver(lines[b])

\* The request ran the buffered Gemini branch with stream=true and the Gemini
\* upstream answered 2xx.
BufferedStreamAnswered ==
    /\ variant = Buffered
    /\ branches # <<>>
    /\ branches[1] = "gemini"
    /\ Truthy(req.body, "stream")
    /\ UpstreamSucceeded

\* C23: on the buffered Gemini path with stream=true and a 2xx upstream the
\* client receives, with status 200, exactly one chunk frame whose content is
\* the whole extracted text (empty when the upstream returned none), then the
\* [DONE] frame, and the response is ended; nothing else is ever written.
C23_OneChunkThenDone ==
    BufferedStreamAnswered
        => LET data == answers[1].data
               text == IF Has(data, "text") THEN data.text ELSE <<>>
           IN  /\ res.out = <<ChunkFrame(req.body.model, text), DoneFrame>>
               /\ res.finished
               /\ res.wire.status = 200

\* C23 witness: the upstream returned no text and the handler has run to its end.
C23_Witness ==
    /\ BufferedStreamAnswered
    /\ ~Has(answers[1].data, "text")
    /\ pc \in {"done", "rejected"}
    /\ res.finished

\* C24: once the response of a request has been started the handler never
\* again sets a status code or sends a body: no call on res fails because the
\* headers were already sent, and the status code of res stays the one that
\* went out.
C24_AtMostOneResponse ==
    /\ \A i \in 1..Len(thrown) : thrown[i] # "ERR_HTTP_HEADERS_SENT"
    /\ res.headersSent => res.statusCode = res.wire.status

\* C25: a temperature or max_tokens that the client supplied, the value 0
\* included, is forwarded unchanged on the NVIDIA path and on the native Gemini
\* path.
C25_SuppliedValueForwarded ==
    \A i \in 1..Len(calls) :
        /\ calls[i].provider = "nvidia"
              => /\ Has(req.body, "temperature")
                       => calls[i].body.temperature = req.body.temperature
                 /\ Has(req.body, "max_tokens")
                       => calls[i].body.max_tokens = req.body.max_tokens
        /\ IsNativeCall(calls[i])
              => /\ Has(req.body, "temperature")
                       => calls[i].body.generationConfig.temperature = req.body.temperature
                 /\ Has(req.body, "max_tokens")
                       => calls[i].body.generationConfig.maxOutputTokens
                             = req.body.max_tokens

\* C26: on the native Gemini paths the model id in the endpoint URL is the
\* model id of the request when that id starts with 'gemini' in any letter
\* case, and 'gemini-1.5-flash' for the other ids routed to the branch; the id
\* in the URL always begins with 'gemini'.
C26_UrlModel ==
    \A i \in 1..Len(calls) :
        IsNativeCall(calls[i])
            => /\ calls[i].url.model =
                    (IF startsWith(toLowerCase(req.body.model), gemini)
                     THEN req.body.model ELSE gemini_15_flash)
               /\ startsWith(calls[i].url.model, gemini)

====
